---- MODULE Spec2Model ----
(***************************************************************************)
(* Model of send.py: a gevent pool of email_task greenlets fed by          *)
(* send_emails, the send_email attempt ladder, the shared failure counters *)
(* and the two file stores (recipients, SMTP credentials).                 *)
(*                                                                         *)
(* Scheduling is gevent's: greenlets are cooperative, so a greenlet keeps  *)
(* the processor until it blocks (network I/O of smtplib, time.sleep,      *)
(* waiting on the pool).  The variable running names the greenlet that     *)
(* holds the processor, Hub when every greenlet is blocked.                *)
(*                                                                         *)
(* The credentials of the initial states are lines of four fields with a   *)
(* numeric port, which lines 106-107 of send_email accept.                 *)
(***************************************************************************)
EXTENDS Integers, Sequences, FiniteSets, TLC

VARIABLES
    email_file,              \* args.email_file, the store the recipients are loaded from
    files,                   \* recipient files: file name -> the file's lines, or NoFile
    smtps,                   \* smtps.txt: sequence of lines
    to_emails,               \* set returned by load_email_addresses
    smtp_details_list,       \* list returned by load_smtp_details
    threads,                 \* args.threads
    net,                     \* the network's behaviour during each task's delivery
    iterOrder,               \* iteration order of the set to_emails
    mainPc,                  \* position of the coordinator (send_emails)
    queue,                   \* recipients pool.map has not started a greenlet for
    running,                 \* greenlet holding the processor, or Hub
    pc,                      \* position of each email_task
    attempt,                 \* loop variable of send_email, per task
    smtp_detail,             \* credential drawn by each task
    delivered,               \* value returned by send_email, per task
    netCalls,                \* connections opened by the task's send_email call
    outcome,                 \* how the latest connection mode of the task ended
    tried,                   \* modes entered in the task's current attempt, in order
    attemptsFailed,          \* attempts of the task's send_email call that ended in failure
    sendCalls,               \* number of send_email calls made for each recipient
    smtp_cycle,              \* cursor of cycle(smtp_details_list)
    handed,                  \* credentials returned by next(smtp_cycle), in order
    failed_smtp,             \* defaultdict(int): credential -> failures
    failed_smtp_lock,        \* owner of the RLock, or Free
    smtp_failures_to_remove, \* set of credentials marked for removal
    evictLeft,               \* elements of smtp_failures_to_remove not yet iterated
    requests,                \* remove_smtp_from_list calls made, in order
    emails,                  \* remove_email_from_list's local `emails`, per task
    waits,                   \* time.sleep(10) calls of the current send_email call
    unguarded                \* places that used failed_smtp or
                             \* smtp_failures_to_remove without holding the lock

vars == <<email_file, files, smtps, to_emails, smtp_details_list, threads, net,
          iterOrder, mainPc, queue, running, pc, attempt, smtp_detail, delivered,
          netCalls, outcome, tried, attemptsFailed, sendCalls, smtp_cycle, handed,
          failed_smtp, failed_smtp_lock, smtp_failures_to_remove, evictLeft, requests,
          emails, waits, unguarded>>

(***************************************************************************)
(* Program constants and bounds of the model.                              *)
(***************************************************************************)
MaxAttempts == 10
EvictThreshold == 10

NumSmall == 2
NumEvict == 22
MaxThreads == 2

Hub == <<"hub">>
Main == <<"main">>
Free == <<"free">>
NoCred == <<>>
NoFile == [exists |-> FALSE, lines |-> {}]
File(lines) == [exists |-> TRUE, lines |-> lines]

(***************************************************************************)
(* Text.  A line of a recipient file is a sequence of characters; a line   *)
(* of smtps.txt is kept as the list of its '|'-separated fields, with a    *)
(* flag for a line that starts with '#'.                                   *)
(***************************************************************************)
Names == <<"a", "b", "c", "d", "e", "f", "g", "h", "i", "j", "k", "l", "m",
           "n", "o", "p", "q", "r", "s", "t", "u", "v", "w", "y", "z">>

Addr(i) == <<Names[i], "@", "x", ".", "c">>
Padded(l) == <<" ">> \o l \o <<" ">>
Junk == <<"j", "u", "n", "k">>
Stranger == <<"s", "@", "o", ".", "c">>

RECURSIVE lstrip(_)
lstrip(l) == IF l # <<>> /\ Head(l) = " " THEN lstrip(Tail(l)) ELSE l

RECURSIVE rstrip(_)
rstrip(l) == IF l # <<>> /\ l[Len(l)] = " " THEN rstrip(SubSeq(l, 1, Len(l) - 1)) ELSE l

strip(l) == rstrip(lstrip(l))

is_valid_email(email) ==
    /\ \E i \in DOMAIN email : email[i] = "@"
    /\ \E i \in DOMAIN email : email[i] = "."

load_email_addresses(file) ==
    IF ~file.exists THEN {}
    ELSE {strip(l) : l \in {x \in file.lines : is_valid_email(strip(x))}}

Cred1 == <<"h1", "25", "u1", "p1">>
Cred2 == <<"h2", "587", "u2", "p2">>
Cred3 == <<"h3", "465", "u3", "p3">>

\* Lines of smtps.txt that load_smtp_details accepts as they are (line 32
\* splits and does not validate): a line with three fields, and a line whose
\* second field is not a number.
CredShort == <<"h4", "25", "u4">>
CredPort == <<"h5", "smtp", "u5", "p5">>

\* int(smtp_port) (line 107) returns for a string of decimal digits and
\* raises ValueError for any other; these are the port fields of the model
\* that are strings of digits.
IsNumeral(field) == field \in {"25", "587", "465"}

\* The credential passes line 167 (smtp_detail[2] exists), line 106 (it
\* unpacks to four names) and line 107.
WellFormed(c) == Len(c) >= 3 /\ Len(c) = 4 /\ IsNumeral(c[2])

Line(c) == [comment |-> FALSE, fields |-> c]
Comment(c) == [comment |-> TRUE, fields |-> c]

RECURSIVE load_smtp_details(_)
load_smtp_details(lines) ==
    IF lines = <<>> THEN <<>>
    ELSE IF Head(lines).comment \/ Head(lines).fields = <<>>
         THEN load_smtp_details(Tail(lines))
         ELSE <<Head(lines).fields>> \o load_smtp_details(Tail(lines))

(***************************************************************************)
(* remove_email_from_list and remove_smtp_from_list, as functions of the   *)
(* file they rewrite.  A file that cannot be opened raises inside the try  *)
(* block: the error is logged and the file is left as it is.               *)
(***************************************************************************)
read_emails(file) ==
    {strip(l) : l \in {x \in file.lines : strip(x) # <<>> /\ is_valid_email(strip(x))}}

remove_email_from_list(file, email) ==
    IF ~file.exists THEN file
    ELSE IF email \in read_emails(file) THEN File(read_emails(file) \ {email}) ELSE file

smtp_to_remove(c) == <<c[1], c[2], c[3], c[4]>>

RECURSIVE remove_smtp_from_list(_, _)
remove_smtp_from_list(lines, c) ==
    IF lines = <<>> THEN <<>>
    ELSE IF ~Head(lines).comment /\ Head(lines).fields = smtp_to_remove(c)
         THEN remove_smtp_from_list(Tail(lines), c)
         ELSE <<Head(lines)>> \o remove_smtp_from_list(Tail(lines), c)

(***************************************************************************)
(* cycle(smtp_details_list) and next(smtp_cycle): the element under the    *)
(* cursor is returned and the cursor moves on, wrapping after the last.    *)
(***************************************************************************)
cycle_value(list, cursor) == list[cursor]

\* Mutant of cycle_advance: the cursor stays where it is.
cycle_advance_stuck(list, cursor) == cursor

\* Mutant of cycle_advance: the cursor stops at the last element.
cycle_advance_nowrap(list, cursor) == IF cursor >= Len(list) THEN Len(list) ELSE cursor + 1

\* Mutant of cycle_advance: after the last element the cursor goes back to
\* the second.
cycle_advance_wrap_second(list, cursor) ==
    IF cursor >= Len(list) THEN (IF Len(list) >= 2 THEN 2 ELSE 1) ELSE cursor + 1

cycle_advance(list, cursor) == (cursor % Len(list)) + 1

(***************************************************************************)
(* The network.  One connection mode of one attempt ends in one of:        *)
(*   "ok"    the message was transmitted;                                  *)
(*   "smtp"  smtplib.SMTPException (authentication, protocol, refusal by   *)
(*           the server), caught by the mode's own except clause;          *)
(*   "os"    any other exception (connection refused, timeout: OSError),   *)
(*           caught by the attempt's except clause.                        *)
(* A profile fixes which of these the network can produce for a task.      *)
(***************************************************************************)
Profiles == {"up", "sslonly", "reject", "down", "flaky"}

Outcomes(profile, mode) ==
    CASE profile = "up"      -> {"ok"}
      [] profile = "sslonly" -> IF mode = "ssl" THEN {"ok"} ELSE {"smtp"}
      [] profile = "reject"  -> {"smtp"}
      [] profile = "down"    -> {"os"}
      [] profile = "flaky"   -> {"ok", "smtp", "os"}

(***************************************************************************)
(* Initial states: the files on disk, the command line and the network,    *)
(* with main's loading (lines 265-270) done.                               *)
(***************************************************************************)
CredSet == {Cred1, Cred2, Cred3}

Rcpts(n) == {Addr(i) : i \in 1..n}

StoreLines(n) == {IF i = 1 THEN Padded(Addr(i)) ELSE Addr(i) : i \in 1..n} \cup {Junk}

Disk(ef, n) ==
    IF ef = "senders.txt"
    THEN [f \in {"senders.txt", "other.txt"} |->
             IF f = "senders.txt" THEN File(StoreLines(n)) ELSE NoFile]
    ELSE [f \in {"senders.txt", "other.txt"} |->
             IF f = "senders.txt" THEN File({Addr(1), Stranger}) ELSE File(StoreLines(n))]

SmtpFile(creds) == <<Comment(Cred2)>> \o [i \in 1..Len(creds) |-> Line(creds[i])]

ByIndex(n) == [i \in 1..n |-> Addr(i)]

InitState(ef, disk, sm, th, nt, ord) ==
    /\ email_file = ef
    /\ files = disk
    /\ smtps = sm
    /\ to_emails = load_email_addresses(disk[ef])
    /\ smtp_details_list = load_smtp_details(sm)
    /\ threads = th
    /\ net = nt
    /\ iterOrder = ord
    /\ mainPc = "send_emails"
    /\ queue = <<>>
    /\ running = Main
    /\ pc = [t \in DOMAIN nt |-> "queued"]
    /\ attempt = [t \in DOMAIN nt |-> 0]
    /\ smtp_detail = [t \in DOMAIN nt |-> NoCred]
    /\ delivered = [t \in DOMAIN nt |-> "none"]
    /\ netCalls = [t \in DOMAIN nt |-> 0]
    /\ outcome = [t \in DOMAIN nt |-> "none"]
    /\ tried = [t \in DOMAIN nt |-> <<>>]
    /\ attemptsFailed = [t \in DOMAIN nt |-> 0]
    /\ sendCalls = [t \in DOMAIN nt |-> 0]
    /\ smtp_cycle = 0
    /\ handed = <<>>
    /\ failed_smtp = [c \in CredSet |-> 0]
    /\ failed_smtp_lock = Free
    /\ smtp_failures_to_remove = {}
    /\ evictLeft = {}
    /\ requests = <<>>
    /\ emails = [t \in DOMAIN nt |-> {}]
    /\ waits = [t \in DOMAIN nt |-> 0]
    /\ unguarded = {}

\* A few recipients, every mix of reachable and unreachable servers.
InitSmall ==
    \E ef \in {"senders.txt", "other.txt"}, th \in 1..MaxThreads,
       creds \in {<<Cred1>>, <<Cred1, Cred2>>},
       nt \in [Rcpts(NumSmall) -> {"up", "down"}] :
        InitState(ef, Disk(ef, NumSmall), SmtpFile(creds), th, nt, ByIndex(NumSmall))

\* One credential, every mode of every attempt refused for every recipient.
InitReject ==
    InitState("senders.txt", Disk("senders.txt", NumSmall), SmtpFile(<<Cred1>>),
              MaxThreads, [t \in Rcpts(NumSmall) |-> "reject"], ByIndex(NumSmall))

\* One recipient, any outcome of any connection.
InitDeliver ==
    \E ef \in {"senders.txt", "other.txt"}, p \in {"flaky", "sslonly"} :
        InitState(ef, Disk(ef, 1), SmtpFile(<<Cred1>>), 1,
                  [t \in Rcpts(1) |-> p], ByIndex(1))

\* Many recipients, one or two workers: the first credential of two meets an
\* unreachable server for every second recipient, which takes its failure
\* count past 10.
InitEvict ==
    \E p2 \in {"up", "down"}, th \in {1, 2} :
        InitState("senders.txt", Disk("senders.txt", NumEvict),
                  SmtpFile(<<Cred1, Cred2>>), th,
                  [t \in Rcpts(NumEvict) |->
                      IF \E i \in 1..NumEvict : t = Addr(i) /\ i % 2 = 1 THEN "down"
                      ELSE IF t = Addr(2) THEN p2 ELSE "up"],
                  ByIndex(NumEvict))

\* Three credentials and one recipient more, every server reachable.
InitRing ==
    \E th \in {1, 2} :
        InitState("senders.txt", Disk("senders.txt", 4),
                  SmtpFile(<<Cred1, Cred2, Cred3>>), th, [t \in Rcpts(4) |-> "up"],
                  ByIndex(4))

\* Nothing to send to, or nothing to send with.
InitEmpty ==
    \/ InitState("senders.txt",
                 [f \in {"senders.txt", "other.txt"} |->
                     IF f = "senders.txt" THEN File({Junk}) ELSE NoFile],
                 SmtpFile(<<Cred1>>), 1, [t \in {} |-> "up"], <<>>)
    \/ InitState("senders.txt", Disk("senders.txt", 1), <<Comment(Cred1)>>, 1,
                 [t \in Rcpts(1) |-> "up"], ByIndex(1))

\* One credential, one worker: nine recipients behind an unreachable server,
\* then a reachable one, then an unreachable one.
InitCumulative ==
    InitState("senders.txt", Disk("senders.txt", EvictThreshold + 1), SmtpFile(<<Cred1>>), 1,
              [t \in Rcpts(EvictThreshold + 1) |->
                  IF t = Addr(EvictThreshold) THEN "up" ELSE "down"],
              ByIndex(EvictThreshold + 1))

\* Three credentials, nine recipients, three workers; the recipients that draw
\* the first credential all meet a reachable server, or all an unreachable one.
InitThree ==
    \E p \in {"up", "down"} :
        InitState("senders.txt", Disk("senders.txt", 9), SmtpFile(<<Cred1, Cred2, Cred3>>), 3,
                  [t \in Rcpts(9) |->
                      IF \E i \in 1..9 : t = Addr(i) /\ i % 3 = 1 THEN p ELSE "up"],
                  ByIndex(9))

Init ==
    \/ InitSmall
    \/ InitReject
    \/ InitDeliver
    \/ InitEvict
    \/ InitRing
    \/ InitEmpty
    \/ InitCumulative
    \/ InitThree

\* One credential and as many recipients as failures evict it, every server
\* unreachable.
InitExhaust ==
    \E th \in {1, 2} :
        InitState("senders.txt", Disk("senders.txt", EvictThreshold), SmtpFile(<<Cred1>>),
                  th, [t \in Rcpts(EvictThreshold) |-> "down"], ByIndex(EvictThreshold))

InitFair == InitSmall \/ InitReject \/ InitDeliver \/ InitExhaust \/ InitEmpty

\* A credentials file with a line that is not host|port|user|password.
InitMalformed ==
    \E th \in {1, 2}, creds \in {<<Cred1, CredShort>>, <<CredPort, Cred1>>, <<CredShort>>},
       nt \in [Rcpts(3) -> {"up", "down"}] :
        InitState("senders.txt", Disk("senders.txt", 3), SmtpFile(creds), th, nt, ByIndex(3))

InitAnyFile == Init \/ InitMalformed

(***************************************************************************)
(* The coordinator: send_emails.                                           *)
(***************************************************************************)
Tasks == DOMAIN pc

Active == {t \in Tasks : pc[t] \notin {"queued", "done", "raised"}}

\* Mutant of PoolIdle: every greenlet was started, none is waited for.
PoolIdleNoWait == queue = <<>>

\* The pool has nothing left to start and no greenlet of it is alive.
PoolIdle == queue = <<>> /\ Active = {}

\* Mutant of MapItems: the first element of the iterable is skipped.
MapItemsSkipFirst(order) == Tail(order)

\* The iterable pool.map walks: one element per recipient.
MapItems(order) == order

\* Mutant of Refuses: the test of the recipient set is missing.
RefusesWithoutCredentialsOnly == smtp_details_list = <<>>

\* Lines 217 and 221: `not to_emails`, `not smtp_details_list`.
Refuses == to_emails = {} \/ smtp_details_list = <<>>

\* Lines 217-229: the precondition checks, then the fresh shared state.
Precheck ==
    /\ mainPc = "send_emails"
    /\ running = Main
    /\ IF Refuses
       THEN /\ mainPc' = "refused"
            /\ running' = Hub
            /\ UNCHANGED <<queue, smtp_cycle, failed_smtp, failed_smtp_lock,
                           smtp_failures_to_remove>>
       ELSE /\ mainPc' = "map"
            /\ running' = Hub
            /\ failed_smtp' = [c \in CredSet |-> 0]
            /\ failed_smtp_lock' = Free
            /\ smtp_failures_to_remove' = {}
            /\ smtp_cycle' = 1
            /\ queue' = MapItems(iterOrder)
    /\ UNCHANGED <<email_file, files, smtps, to_emails, smtp_details_list, threads,
                   net, iterOrder, pc, attempt, smtp_detail, delivered, netCalls,
                   outcome, tried, attemptsFailed, sendCalls, handed, evictLeft, requests, emails, waits, unguarded>>

\* Mutant of Room: one slot of the pool is never used.
RoomOneShort == Cardinality(Active) < threads - 1

\* Mutant of Room: the pool has no size.
RoomUnbounded == TRUE

\* Line 231: Pool(threads) has a free slot.
Room == Cardinality(Active) < threads

\* Lines 231-232: the pool starts a greenlet for the next recipient when fewer
\* than `threads` greenlets are alive.
Spawn(t) ==
    /\ mainPc = "map"
    /\ running = Hub
    /\ queue # <<>>
    /\ t = Head(queue)
    /\ pc[t] = "queued"
    /\ Room
    /\ queue' = Tail(queue)
    /\ pc' = [pc EXCEPT ![t] = "spawned"]
    /\ UNCHANGED <<email_file, files, smtps, to_emails, smtp_details_list, threads,
                   net, iterOrder, mainPc, running, attempt, smtp_detail, delivered,
                   netCalls, outcome, tried, attemptsFailed, sendCalls, smtp_cycle, handed, failed_smtp,
                   failed_smtp_lock, smtp_failures_to_remove, evictLeft, requests, emails, waits, unguarded>>

\* Line 232: pool.map returns once every task has returned.
MapReturn ==
    /\ mainPc = "map"
    /\ running = Hub
    /\ PoolIdle
    /\ \A t \in Tasks : pc[t] # "raised"
    /\ mainPc' = "join"
    /\ running' = Main
    /\ UNCHANGED <<email_file, files, smtps, to_emails, smtp_details_list, threads,
                   net, iterOrder, queue, pc, attempt, smtp_detail, delivered,
                   netCalls, outcome, tried, attemptsFailed, sendCalls, smtp_cycle, handed, failed_smtp,
                   failed_smtp_lock, smtp_failures_to_remove, evictLeft, requests, emails, waits, unguarded>>

\* Lines 173 and 236: `with failed_smtp_lock`.  A use of failed_smtp or of
\* smtp_failures_to_remove at `place` by `who` is inside the with block when
\* who owns the lock; a use outside one is put on record.
Used(who, place) ==
    IF failed_smtp_lock = who THEN unguarded ELSE unguarded \cup {place}

\* Lines 234-236: pool.join(), then the lock is taken and the iteration over
\* smtp_failures_to_remove starts.
Join ==
    /\ mainPc = "join"
    /\ running = Main
    /\ PoolIdle
    /\ failed_smtp_lock = Free
    /\ failed_smtp_lock' = Main
    /\ evictLeft' = smtp_failures_to_remove
    /\ mainPc' = "evict"
    /\ unguarded' = unguarded
    /\ UNCHANGED <<email_file, files, smtps, to_emails, smtp_details_list, threads,
                   net, iterOrder, queue, running, pc, attempt, smtp_detail,
                   delivered, netCalls, outcome, tried, attemptsFailed, sendCalls, smtp_cycle, handed, failed_smtp,
                   smtp_failures_to_remove, requests, emails, waits>>

\* Mutant of Evict: the loop does not move on to the next element.
EvictAgain(c) ==
    /\ mainPc = "evict"
    /\ running = Main
    /\ c \in evictLeft
    /\ smtps' = remove_smtp_from_list(smtps, c)
    /\ requests' = Append(requests, c)
    /\ unguarded' = Used(Main, "evict")
    /\ UNCHANGED <<email_file, files, to_emails, smtp_details_list, threads, net,
                   iterOrder, mainPc, queue, running, pc, attempt, smtp_detail,
                   delivered, netCalls, outcome, tried, attemptsFailed, sendCalls,
                   smtp_cycle, handed, failed_smtp, failed_smtp_lock,
                   smtp_failures_to_remove, evictLeft, emails, waits>>

\* Lines 237-238: one iteration of the loop, one remove_smtp_from_list call.
Evict(c) ==
    /\ mainPc = "evict"
    /\ running = Main
    /\ c \in evictLeft
    /\ evictLeft' = evictLeft \ {c}
    /\ smtps' = remove_smtp_from_list(smtps, c)
    /\ requests' = Append(requests, c)
    /\ unguarded' = Used(Main, "evict")
    /\ UNCHANGED <<email_file, files, to_emails, smtp_details_list, threads, net,
                   iterOrder, mainPc, queue, running, pc, attempt, smtp_detail,
                   delivered, netCalls, outcome, tried, attemptsFailed, sendCalls, smtp_cycle, handed, failed_smtp,
                   failed_smtp_lock, smtp_failures_to_remove, emails, waits>>

\* Line 238: the loop ends and the with block releases the lock.
EvictEnd ==
    /\ mainPc = "evict"
    /\ running = Main
    /\ evictLeft = {}
    /\ failed_smtp_lock' = Free
    /\ mainPc' = "summary"
    /\ UNCHANGED <<email_file, files, smtps, to_emails, smtp_details_list, threads,
                   net, iterOrder, queue, running, pc, attempt, smtp_detail, delivered,
                   netCalls, outcome, tried, attemptsFailed, sendCalls, smtp_cycle,
                   handed, failed_smtp, smtp_failures_to_remove, evictLeft, requests,
                   emails, waits, unguarded>>

\* Lines 240-244: `if smtp_failures_to_remove`, after the with block;
\* check_remaining_smtp reads smtps.txt and send_emails returns.
Finish ==
    /\ mainPc = "summary"
    /\ running = Main
    /\ unguarded' = Used(Main, "summary")
    /\ mainPc' = "returned"
    /\ running' = Hub
    /\ UNCHANGED <<email_file, files, smtps, to_emails, smtp_details_list, threads,
                   net, iterOrder, queue, pc, attempt, smtp_detail, delivered,
                   netCalls, outcome, tried, attemptsFailed, sendCalls, smtp_cycle,
                   handed, failed_smtp, failed_smtp_lock, smtp_failures_to_remove,
                   evictLeft, requests, emails, waits>>

(***************************************************************************)
(* A task: email_task, with send_email inlined at its call.                *)
(***************************************************************************)
inputs == <<email_file, to_emails, smtp_details_list, threads, net, iterOrder>>
mainVars == <<mainPc, queue, evictLeft, requests, smtps>>
sendVars == <<attempt, netCalls, outcome, tried, attemptsFailed, delivered, waits>>
sharedVars == <<failed_smtp, failed_smtp_lock, smtp_failures_to_remove, unguarded>>
ringVars == <<smtp_cycle, handed>>

\* The place of a recipient in the iteration over to_emails.
Position(t) == CHOOSE i \in DOMAIN iterOrder : iterOrder[i] = t

\* Lines 164-167: the greenlet starts and draws its credential.  The hub
\* starts greenlets in the order the pool spawned them.
Draw(t) ==
    /\ pc[t] = "spawned"
    /\ running = Hub
    /\ \A u \in Tasks : pc[u] = "spawned" => Position(t) <= Position(u)
    /\ smtp_detail' = [smtp_detail EXCEPT ![t] = cycle_value(smtp_details_list, smtp_cycle)]
    /\ handed' = Append(handed, cycle_value(smtp_details_list, smtp_cycle))
    /\ smtp_cycle' = cycle_advance(smtp_details_list, smtp_cycle)
    /\ pc' = [pc EXCEPT ![t] = "send_email"]
    /\ running' = t
    /\ UNCHANGED <<inputs, mainVars, sendVars, sharedVars, files, sendCalls, emails>>

\* Lines 169, 105-119: send_email is called and opens the first connection of
\* its first attempt.
CallSend(t) ==
    /\ pc[t] = "send_email"
    /\ running = t
    /\ WellFormed(smtp_detail[t])
    /\ sendCalls' = [sendCalls EXCEPT ![t] = @ + 1]
    /\ attempt' = [attempt EXCEPT ![t] = 0]
    /\ netCalls' = [netCalls EXCEPT ![t] = 0]
    /\ outcome' = [outcome EXCEPT ![t] = "none"]
    /\ tried' = [tried EXCEPT ![t] = <<>>]
    /\ attemptsFailed' = [attemptsFailed EXCEPT ![t] = 0]
    /\ waits' = [waits EXCEPT ![t] = 0]
    /\ pc' = [pc EXCEPT ![t] = "starttls"]
    /\ running' = Hub
    /\ UNCHANGED <<inputs, mainVars, sharedVars, ringVars, files, smtp_detail, delivered, emails>>

\* Lines 167, 106, 107: the drawn credential has fewer than three fields
\* (IndexError, before send_email is called), does not unpack to four names
\* or has a port that is not a number (ValueError, inside send_email and
\* outside its try block).  No handler encloses these lines: the exception
\* leaves email_task and the greenlet is dead.
Raise(t) ==
    /\ pc[t] = "send_email"
    /\ running = t
    /\ ~WellFormed(smtp_detail[t])
    /\ sendCalls' = [sendCalls EXCEPT ![t] = IF Len(smtp_detail[t]) >= 3 THEN @ + 1 ELSE @]
    /\ pc' = [pc EXCEPT ![t] = "raised"]
    /\ running' = Hub
    /\ UNCHANGED <<inputs, mainVars, sendVars, sharedVars, ringVars, files, smtp_detail, emails>>

\* Line 232: pool.map hands the results back in the order of the iterable
\* and re-raises the exception of a dead greenlet when its turn comes.
\* send_emails has no handler, and neither has the module level (line 278):
\* the process ends with the traceback, the greenlets that are still alive
\* with it.
MapRaise ==
    /\ mainPc = "map"
    /\ running = Hub
    /\ \E t \in Tasks :
          /\ pc[t] = "raised"
          /\ \A u \in Tasks : Position(u) < Position(t) => pc[u] \in {"done", "raised"}
    /\ mainPc' = "crashed"
    /\ running' = Main
    /\ UNCHANGED <<inputs, sendVars, sharedVars, ringVars, files, smtp_detail, sendCalls,
                   queue, evictLeft, requests, smtps, pc, emails>>

\* The ladder of one attempt: the block that follows a mode's except clause.
NextMode(mode) ==
    CASE mode = "starttls" -> "tls"
      [] mode = "tls"      -> "ssl"
      [] mode = "ssl"      -> "sleep10"

\* Mutant of AfterMode: the STARTTLS block lacks its `return True`.
AfterModeNoReturn(mode, o) ==
    CASE o = "ok"   -> IF mode = "starttls" THEN "tls" ELSE "remove"
      [] o = "smtp" -> NextMode(mode)
      [] o = "os"   -> "sleep10"

\* Where send_email goes after a mode ended with outcome o: `return True`
\* (lines 125, 137, 149) takes email_task to line 170; an SMTPException is
\* caught by the mode's except clause (lines 126, 138, 150) and the next block
\* runs; any other exception is caught at line 153 and line 157 runs.
AfterMode(mode, o) ==
    CASE o = "ok"   -> "remove"
      [] o = "smtp" -> NextMode(mode)
      [] o = "os"   -> "sleep10"

\* One connection mode of the current attempt, from connect to sendmail.
TryMode(t, mode) ==
    /\ pc[t] = mode
    /\ running = Hub
    /\ \E o \in Outcomes(net[t], mode) :
        /\ outcome' = [outcome EXCEPT ![t] = o]
        /\ pc' = [pc EXCEPT ![t] = AfterMode(mode, o)]
        /\ delivered' = [delivered EXCEPT ![t] = IF AfterMode(mode, o) = "remove"
                                                 THEN "true" ELSE @]
        /\ attemptsFailed' = [attemptsFailed EXCEPT ![t] =
                                 IF AfterMode(mode, o) = "sleep10" THEN @ + 1 ELSE @]
        /\ running' = IF AfterMode(mode, o) = "remove" THEN t ELSE Hub
    /\ netCalls' = [netCalls EXCEPT ![t] = @ + 1]
    /\ tried' = [tried EXCEPT ![t] = Append(@, mode)]
    /\ UNCHANGED <<inputs, mainVars, sharedVars, ringVars, files, smtp_detail,
                   sendCalls, attempt, emails, waits>>

\* Lines 116-127.
Starttls(t) == TryMode(t, "starttls")

\* Lines 129-139.
Tls(t) == TryMode(t, "tls")

\* Lines 141-151.
SslTls(t) == TryMode(t, "ssl")

\* Mutant of LoopEnds: the loop runs once more.
LoopEndsLate(a) == a + 1 > MaxAttempts

\* Line 111: range(10) is exhausted after the attempt numbered a.
LoopEnds(a) == a + 1 >= MaxAttempts

\* Lines 157, 111, 159-160: the wait after a failed attempt, then the next
\* attempt, or `return False` to line 172 when the loop is over.
Sleep10(t) ==
    /\ pc[t] = "sleep10"
    /\ running = Hub
    /\ waits' = [waits EXCEPT ![t] = @ + 1]
    /\ IF LoopEnds(attempt[t])
       THEN /\ delivered' = [delivered EXCEPT ![t] = "false"]
            /\ pc' = [pc EXCEPT ![t] = "lock"]
            /\ running' = t
            /\ UNCHANGED <<attempt, tried>>
       ELSE /\ attempt' = [attempt EXCEPT ![t] = @ + 1]
            /\ tried' = [tried EXCEPT ![t] = <<>>]
            /\ pc' = [pc EXCEPT ![t] = "starttls"]
            /\ running' = Hub
            /\ UNCHANGED delivered
    /\ UNCHANGED <<inputs, mainVars, sharedVars, ringVars, files, smtp_detail,
                   sendCalls, netCalls, outcome, attemptsFailed, emails>>

\* The file email_task asks remove_email_from_list to rewrite (line 170).
RemovalFile == "senders.txt"

\* Mutant of FileSwitches: reading a file lets another greenlet run.
FileSwitchesYes == TRUE

\* Line 18: monkey.patch_all() replaces the socket, ssl, time and lock
\* primitives by ones that switch greenlets while they wait.  The file
\* objects of open() are not among them: a greenlet that reads or writes a
\* file keeps running until the call returns.
FileSwitches == FALSE

\* Who runs between the read and the write of remove_email_from_list.
DuringFileIO(t) == IF FileSwitches THEN Hub ELSE t

\* Mutant of ReadStore: a delivery that succeeded resets the failure count of
\* its credential.
ReadStoreResetsCount(t) ==
    /\ pc[t] = "remove"
    /\ running = t
    /\ failed_smtp' = [failed_smtp EXCEPT ![smtp_detail[t]] = 0]
    /\ IF files[RemovalFile].exists
       THEN /\ emails' = [emails EXCEPT ![t] = read_emails(files[RemovalFile])]
            /\ pc' = [pc EXCEPT ![t] = "rewrite"]
            /\ running' = DuringFileIO(t)
       ELSE /\ pc' = [pc EXCEPT ![t] = "done"]
            /\ running' = Hub
            /\ UNCHANGED emails
    /\ UNCHANGED <<inputs, mainVars, sendVars, ringVars, smtp_detail, sendCalls, files,
                   failed_smtp_lock, smtp_failures_to_remove, unguarded>>

\* Lines 170, 184-186: the file is read into the set `emails`.  A file that
\* cannot be opened raises inside the try block: the error is logged (line
\* 194) and the task ends.
ReadStore(t) ==
    /\ pc[t] = "remove"
    /\ running = t
    /\ IF files[RemovalFile].exists
       THEN /\ emails' = [emails EXCEPT ![t] = read_emails(files[RemovalFile])]
            /\ pc' = [pc EXCEPT ![t] = "rewrite"]
            /\ running' = DuringFileIO(t)
       ELSE /\ pc' = [pc EXCEPT ![t] = "done"]
            /\ running' = Hub
            /\ UNCHANGED emails
    /\ UNCHANGED <<inputs, mainVars, sendVars, sharedVars, ringVars, smtp_detail,
                   sendCalls, files>>

\* Lines 187-192, 171: the file is rewritten from `emails` when the recipient
\* was in it, and the task ends.
WriteStore(t) ==
    /\ pc[t] = "rewrite"
    /\ running = DuringFileIO(t)
    /\ files' = IF t \in emails[t]
                THEN [files EXCEPT ![RemovalFile] = File(emails[t] \ {t})]
                ELSE files
    /\ emails' = [emails EXCEPT ![t] = {}]
    /\ pc' = [pc EXCEPT ![t] = "done"]
    /\ running' = Hub
    /\ UNCHANGED <<inputs, mainVars, sendVars, sharedVars, ringVars, smtp_detail,
                   sendCalls>>

\* Mutant of Acquire: the task goes on without the lock.
AcquireNothing(t) ==
    /\ pc[t] = "lock"
    /\ running = t
    /\ pc' = [pc EXCEPT ![t] = "count"]
    /\ UNCHANGED <<inputs, mainVars, sendVars, sharedVars, ringVars, files, smtp_detail,
                   sendCalls, running, emails>>

\* Line 173: `with failed_smtp_lock`.
Acquire(t) ==
    /\ pc[t] = "lock"
    /\ running = t
    /\ failed_smtp_lock = Free
    /\ failed_smtp_lock' = t
    /\ pc' = [pc EXCEPT ![t] = "count"]
    /\ UNCHANGED <<inputs, mainVars, sendVars, ringVars, files, smtp_detail,
                   sendCalls, running, failed_smtp, smtp_failures_to_remove, emails, unguarded>>

\* Mutant of Count: the counter is set, not incremented.
CountAssign(t) ==
    /\ pc[t] = "count"
    /\ running = t
    /\ failed_smtp' = [failed_smtp EXCEPT ![smtp_detail[t]] = 1]
    /\ unguarded' = Used(t, "count")
    /\ pc' = [pc EXCEPT ![t] = "mark"]
    /\ UNCHANGED <<inputs, mainVars, sendVars, ringVars, files, smtp_detail,
                   sendCalls, running, failed_smtp_lock, smtp_failures_to_remove, emails>>

\* Line 174.
Count(t) ==
    /\ pc[t] = "count"
    /\ running = t
    /\ failed_smtp' = [failed_smtp EXCEPT ![smtp_detail[t]] = @ + 1]
    /\ unguarded' = Used(t, "count")
    /\ pc' = [pc EXCEPT ![t] = "mark"]
    /\ UNCHANGED <<inputs, mainVars, sendVars, ringVars, files, smtp_detail,
                   sendCalls, running, failed_smtp_lock, smtp_failures_to_remove, emails>>

\* Mutant of ReachedThreshold: the credential is marked one failure late.
ReachedThresholdLate(n) == n > EvictThreshold

\* Line 175.
ReachedThreshold(n) == n >= EvictThreshold

\* Lines 175-180: the credential is marked when its count reached the
\* threshold, the lock is released and the task starts its 3 second sleep.
Mark(t) ==
    /\ pc[t] = "mark"
    /\ running = t
    /\ smtp_failures_to_remove' =
          IF ReachedThreshold(failed_smtp[smtp_detail[t]])
          THEN smtp_failures_to_remove \cup {smtp_detail[t]}
          ELSE smtp_failures_to_remove
    /\ unguarded' = Used(t, "mark")
    /\ failed_smtp_lock' = Free
    /\ pc' = [pc EXCEPT ![t] = "sleep3"]
    /\ running' = Hub
    /\ UNCHANGED <<inputs, mainVars, sendVars, ringVars, files, smtp_detail,
                   sendCalls, failed_smtp, emails>>

\* Line 180: the sleep ends and the task returns.
Sleep3(t) ==
    /\ pc[t] = "sleep3"
    /\ running = Hub
    /\ pc' = [pc EXCEPT ![t] = "done"]
    /\ UNCHANGED <<inputs, mainVars, sendVars, sharedVars, ringVars, files,
                   smtp_detail, sendCalls, running, emails>>

Next ==
    \/ Precheck
    \/ MapReturn
    \/ Join
    \/ \E c \in CredSet : Evict(c)
    \/ EvictEnd
    \/ Finish
    \/ \E t \in Tasks : Spawn(t)
    \/ \E t \in Tasks : Draw(t)
    \/ \E t \in Tasks : CallSend(t)
    \/ \E t \in Tasks : Starttls(t)
    \/ \E t \in Tasks : Tls(t)
    \/ \E t \in Tasks : SslTls(t)
    \/ \E t \in Tasks : Sleep10(t)
    \/ \E t \in Tasks : ReadStore(t)
    \/ \E t \in Tasks : WriteStore(t)
    \/ \E t \in Tasks : Acquire(t)
    \/ \E t \in Tasks : Count(t)
    \/ \E t \in Tasks : Mark(t)
    \/ \E t \in Tasks : Sleep3(t)

Spec == Init /\ [][Next]_vars

\* The hub runs a greenlet that is ready, a sleep ends, and a connection
\* attempt ends (the timeouts of lines 119, 132, 144): a step that can be
\* taken is taken.
FairSpec == InitFair /\ [][Next]_vars /\ WF_vars(Next)

\* The program on any credentials file, well-formed lines or not.
NextAnyFile ==
    \/ Next
    \/ \E t \in Tasks : Raise(t)
    \/ MapRaise

SpecAnyFile == InitAnyFile /\ [][NextAnyFile]_vars

(***************************************************************************)
(* Properties.                                                             *)
(***************************************************************************)
Occurrences(seq, x) == Cardinality({i \in DOMAIN seq : seq[i] = x})

\* The recipients in the store the run loaded its recipients from.
PendingStore == load_email_addresses(files[email_file])

\* send_email has returned to email_task.
Returned(t) == pc[t] \in {"remove", "rewrite", "lock", "count", "mark", "sleep3", "done"}

\* Tasks that drew c and have left the critical section of lines 173-178.
Recorded(c) ==
    {t \in Tasks : smtp_detail[t] = c /\ delivered[t] = "false" /\ pc[t] \in {"sleep3", "done"}}

\* Tasks that drew c and whose send_email call returned False.
FailedWith(c) == {t \in Tasks : smtp_detail[t] = c /\ delivered[t] = "false"}

\* The i-th element of the cyclic sequence over the credential list.
Cyclic(i) == smtp_details_list[((i - 1) % Len(smtp_details_list)) + 1]

\* C1: when the run has completed, every recipient whose delivery returned
\* success is absent from the store the recipients were loaded from, and every
\* recipient whose delivery returned failure is still in that store.
C1_StoreFollowsDelivery ==
    mainPc = "returned" =>
        \A r \in to_emails :
            /\ delivered[r] = "true" => r \notin PendingStore
            /\ delivered[r] = "false" => r \in PendingStore

\* C2: send_email is never called twice for a recipient, and when the run has
\* completed it has been called exactly once for every recipient of the set,
\* by a task that has ended.
C2_OneDeliverPerRecipient ==
    /\ \A r \in Tasks : sendCalls[r] <= 1
    /\ mainPc = "returned" =>
          \A r \in to_emails : r \in Tasks /\ sendCalls[r] = 1 /\ pc[r] = "done"

C2_Witness ==
    /\ mainPc = "returned"
    /\ Cardinality(to_emails) >= 2
    /\ \E r1, r2 \in to_emails : delivered[r1] = "true" /\ delivered[r2] = "false"

\* C3: when the run has completed, the failure counter of every credential
\* equals the number of tasks that drew it and whose send_email call returned
\* False.
C3_CounterCountsExhaustedDeliveries ==
    mainPc = "returned" =>
        \A c \in CredSet : failed_smtp[c] = Cardinality(FailedWith(c))

\* Two recipients (or more), one credential, every mode of every attempt failing.
C3_Witness ==
    /\ mainPc = "returned"
    /\ smtp_details_list = <<Cred1>>
    /\ Cardinality(to_emails) >= 2
    /\ \A t \in Tasks : netCalls[t] = 3 * MaxAttempts /\ delivered[t] = "false"
    /\ failed_smtp[Cred1] = Cardinality(to_emails)

\* C4: once exactly 10 tasks have recorded a failure of a credential, the
\* credential is in the set of credentials to remove; while only 9 have, it is
\* not.
C4_MarkedAtTenthFailure ==
    \A c \in CredSet :
        /\ Cardinality(Recorded(c)) = EvictThreshold => c \in smtp_failures_to_remove
        /\ Cardinality(Recorded(c)) = EvictThreshold - 1 => c \notin smtp_failures_to_remove

\* The tenth failure is recorded while another task holding the same
\* credential is still at work.
C4_Witness ==
    \E c \in CredSet :
        /\ Cardinality(Recorded(c)) = EvictThreshold
        /\ c \in smtp_failures_to_remove
        /\ \E t \in Active : smtp_detail[t] = c

\* C5: a credential is never the subject of two removal requests, a request
\* is made only for a credential whose failure count reached 10, and when the
\* run has completed there is exactly one request for every such credential.
C5_OneRequestPerEvictedCredential ==
    \A c \in CredSet :
        /\ Occurrences(requests, c) <= 1
        /\ Occurrences(requests, c) = 1 => failed_smtp[c] >= EvictThreshold
        /\ mainPc = "returned" /\ failed_smtp[c] >= EvictThreshold
              => Occurrences(requests, c) = 1

\* One credential went past 10 failures, the other failed fewer than 10 times.
C5_Witness ==
    /\ mainPc = "returned"
    /\ \E c \in CredSet : failed_smtp[c] > EvictThreshold /\ requests = <<c>>
    /\ \E c \in CredSet : failed_smtp[c] \in 1..(EvictThreshold - 1)
    /\ Len(smtps) = 2

\* C6: while the coordinator iterates over the set of credentials to remove,
\* and once it has made a removal request, every task of the run has ended.
C6_EvictionBehindBarrier ==
    (mainPc \in {"evict", "summary"} \/ requests # <<>> \/ evictLeft # {})
        => \A t \in Tasks : pc[t] = "done"

C6_Witness ==
    /\ mainPc = "evict"
    /\ evictLeft # {}
    /\ requests = <<>>

\* C7: every next(smtp_cycle) call moves the cursor by one position: after n
\* calls, one per task that has started, the cursor is n positions past the
\* start and every credential has been handed out as often as it occurs among
\* the first n elements of the cyclic sequence.
C7_HandOutIsCyclicPrefix ==
    mainPc # "send_emails" /\ mainPc # "refused" =>
        /\ Len(handed) = Cardinality({t \in Tasks : pc[t] \notin {"queued", "spawned"}})
        /\ smtp_cycle = (Len(handed) % Len(smtp_details_list)) + 1
        /\ \A c \in CredSet :
              Occurrences(handed, c) =
                  Cardinality({i \in 1..Len(handed) : Cyclic(i) = c})
        /\ \A t \in Tasks : pc[t] \notin {"queued", "spawned"} => smtp_detail[t] \in CredSet

\* Two tasks at work at once, and the ring has gone round more than once.
C7_Witness ==
    /\ Len(handed) > Len(smtp_details_list)
    /\ Len(smtp_details_list) = 2
    /\ Cardinality(Active) = 2
    /\ \E t1, t2 \in Active : t1 # t2 /\ smtp_detail[t1] = smtp_detail[t2]

\* C8: with one worker, the first k calls of next(smtp_cycle) return the k
\* credentials in load order and the call after them returns the first again.
C8_RingOrder ==
    LET k == Len(smtp_details_list)
    IN  threads = 1 =>
            /\ \A i \in 1..Len(handed) : i <= k => handed[i] = smtp_details_list[i]
            /\ Len(handed) >= k + 1 => handed[k + 1] = smtp_details_list[1]

C8_Witness ==
    /\ threads = 1
    /\ smtp_details_list = <<Cred1, Cred2, Cred3>>
    /\ handed = <<Cred1, Cred2, Cred3, Cred1>>

\* C9: once a mode has completed transmission, send_email has returned True
\* and the task is past its send_email call, where no mode and no attempt
\* starts; a success of the first mode of the first attempt has opened exactly
\* one connection and entered no mode but STARTTLS.
C9_SuccessReturnsAtOnce ==
    \A t \in Tasks :
        outcome[t] = "ok" =>
            /\ delivered[t] = "true"
            /\ pc[t] \in {"remove", "rewrite", "done"}
            /\ (attempt[t] = 0 /\ tried[t] = <<"starttls">>) => netCalls[t] = 1

C9_Witness ==
    \E t \in Tasks :
        /\ net[t] = "flaky"
        /\ outcome[t] = "ok"
        /\ attempt[t] = 0
        /\ tried[t] = <<"starttls">>
        /\ netCalls[t] = 1
        /\ pc[t] = "done"

\* C10: send_email makes at most 10 attempts, enters the modes of an attempt
\* in the order STARTTLS, TLS, SSL/TLS, and has returned False exactly when 10
\* attempts have failed.
C10_TenAttemptsFixedLadder ==
    \A t \in Tasks :
        /\ attempt[t] \in 0..(MaxAttempts - 1)
        /\ attemptsFailed[t] <= MaxAttempts
        /\ tried[t] \in {<<>>, <<"starttls">>, <<"starttls", "tls">>,
                         <<"starttls", "tls", "ssl">>}
        /\ delivered[t] = "false" => Returned(t) /\ outcome[t] # "ok"
        /\ Returned(t) => (delivered[t] = "false" <=> attemptsFailed[t] = MaxAttempts)
        /\ Returned(t) => (delivered[t] = "true" <=> outcome[t] = "ok")

\* Ten failed attempts, the last of which went through all three modes.
C10_Witness ==
    \E t \in Tasks :
        /\ net[t] = "flaky"
        /\ delivered[t] = "false"
        /\ attemptsFailed[t] = MaxAttempts
        /\ tried[t] = <<"starttls", "tls", "ssl">>
        /\ netCalls[t] < 3 * MaxAttempts

\* C11: a mode that fails with a connection-level error is followed by the
\* next mode of the same attempt, as a mode that fails with an SMTP error is:
\* an attempt has failed, and its wait has begun, only after all three modes
\* were tried.
C11_LadderSurvivesConnectionErrors ==
    \A t \in Tasks :
        pc[t] = "sleep10" => tried[t] = <<"starttls", "tls", "ssl">>

\* C12: no exception leaves a task and none reaches the coordinator: a task
\* that has ended has had its send_email call return True or False, and the
\* run is never ended by a task's exception.
C12_NothingEscapesATask ==
    /\ mainPc # "crashed"
    /\ \A t \in Tasks :
          /\ pc[t] # "raised"
          /\ pc[t] = "done" => delivered[t] \in {"true", "false"}

\* C13: with an empty recipient set or an empty credential list the run
\* takes no step but its return: no task is scheduled or started, no
\* credential is drawn, no connection is opened, and neither the recipient
\* files nor smtps.txt change.
C13_EmptyInputDispatchesNothing ==
    [][(to_emails = {} \/ smtp_details_list = <<>>) =>
          /\ mainPc = "send_emails" /\ mainPc' = "refused"
          /\ UNCHANGED <<files, smtps, queue, pc, smtp_cycle, handed, smtp_detail,
                         sendCalls, netCalls, requests, failed_smtp,
                         smtp_failures_to_remove>>]_vars

\* The run returned for want of credentials, its recipient still in the file.
C13_Witness ==
    /\ mainPc = "refused"
    /\ to_emails = {Addr(1)}
    /\ smtp_details_list = <<>>
    /\ smtps # <<>>
    /\ pc[Addr(1)] = "queued"
    /\ Addr(1) \in PendingStore

\* C14: a run that has passed its precondition checks and started
\* dispatching eventually returns from send_emails, whichever deliveries
\* fail.
C14_RunCompletes == (mainPc = "map") ~> (mainPc = "returned")

\* A completed run in which one delivery exhausted its attempts and another
\* succeeded.
C14_Witness ==
    /\ mainPc = "returned"
    /\ threads = 2
    /\ \E t1, t2 \in Tasks :
          /\ delivered[t1] = "false" /\ attemptsFailed[t1] = MaxAttempts
          /\ delivered[t2] = "true"
    /\ \A t \in Tasks : pc[t] = "done"

\* C15: the tasks that have started and not ended are never more than
\* `threads`: while the pool is full the next recipient stays in the queue.
C15_PoolBound ==
    /\ Cardinality(Active) <= threads
    /\ \A t \in Tasks : pc[t] = "queued" /\ mainPc = "map" => \E i \in DOMAIN queue : queue[i] = t

\* The pool is full, every greenlet of it is inside send_email, and a
\* recipient waits.
C15_Witness ==
    /\ threads = 2
    /\ Cardinality({t \in Tasks : pc[t] \in {"starttls", "tls", "ssl", "sleep10"}}) = threads
    /\ queue # <<>>

\* Tasks that drew c and have incremented its counter (line 174).
Counted(c) ==
    {t \in Tasks : smtp_detail[t] = c /\ delivered[t] = "false"
                     /\ pc[t] \in {"mark", "sleep3", "done"}}

\* C16: the failure counter of a credential is the number of failed
\* deliveries made with it since the run began, whatever successes came in
\* between: it never goes down and a success does not reset it.  A credential
\* whose counter has reached 10 is marked once the task that counted is past
\* line 177.
C16_CounterIsCumulative ==
    \A c \in CredSet :
        /\ failed_smtp[c] = Cardinality(Counted(c))
        /\ (failed_smtp[c] >= EvictThreshold /\ \A t \in Tasks : pc[t] # "mark")
              => c \in smtp_failures_to_remove

\* Nine failures, a success, and the tenth failure: the count is 10 and the
\* credential is marked.
C16_Witness ==
    /\ threads = 1
    /\ smtp_details_list = <<Cred1>>
    /\ to_emails = Rcpts(EvictThreshold + 1)
    /\ \A i \in 1..(EvictThreshold - 1) : delivered[Addr(i)] = "false"
    /\ delivered[Addr(EvictThreshold)] = "true" /\ pc[Addr(EvictThreshold)] = "done"
    /\ delivered[Addr(EvictThreshold + 1)] = "false"
    /\ failed_smtp[Cred1] = EvictThreshold
    /\ Cred1 \in smtp_failures_to_remove

\* C17: in a run with 3 credentials, 9 recipients and 3 workers no
\* credential is drawn by more than 4 tasks, and when the run has completed
\* every credential has been drawn by at least 2.
C17_EvenShare ==
    (Len(smtp_details_list) = 3 /\ Cardinality(to_emails) = 9 /\ threads = 3) =>
        \A i \in 1..3 :
            /\ Occurrences(handed, smtp_details_list[i]) <= 4
            /\ mainPc = "returned" => Occurrences(handed, smtp_details_list[i]) >= 2

\* Such a run has completed, three deliveries of it having failed while
\* others went on.
C17_Witness ==
    /\ Len(smtp_details_list) = 3 /\ Cardinality(to_emails) = 9 /\ threads = 3
    /\ mainPc = "returned"
    /\ Len(handed) = 9
    /\ \A c \in CredSet : Occurrences(handed, c) = 3
    /\ failed_smtp[Cred1] = 3

\* C18: the rewrites of the recipient file are serialized: at most one task
\* is between its read of the file and its write, what it is about to write
\* is the file as it is now less its recipient, and no removal is lost or
\* undone: a recipient whose task has ended after a successful delivery is
\* not in the file.
C18_RemovalsAreSerialized ==
    /\ Cardinality({t \in Tasks : pc[t] = "rewrite"}) <= 1
    /\ \A t \in Tasks :
          /\ pc[t] = "rewrite" =>
                (IF t \in emails[t] THEN File(emails[t] \ {t}) ELSE files[RemovalFile])
                    = remove_email_from_list(files[RemovalFile], t)
          /\ (delivered[t] = "true" /\ pc[t] = "done" /\ files[RemovalFile].exists)
                => t \notin read_emails(files[RemovalFile])

\* A task is between its read and its write while the delivery of another
\* task, whose recipient is in the file too, is about to succeed.
C18_Witness ==
    \E t1, t2 \in Tasks :
        /\ t1 # t2
        /\ pc[t1] = "rewrite" /\ t1 \in emails[t1]
        /\ pc[t2] \in {"starttls", "tls", "ssl"} /\ net[t2] = "up"
        /\ t2 \in read_emails(files[RemovalFile])

\* A task is inside the with block of lines 173-178.
InCriticalSection(t) == pc[t] \in {"count", "mark"}

\* The set of credentials to remove agrees with the counters.
MarksAgreeWithCounts ==
    \A c \in CredSet : c \in smtp_failures_to_remove <=> failed_smtp[c] >= EvictThreshold

\* C19: while no task is inside the critical section a credential is in the
\* set of credentials to remove exactly if its counter is at least 10; the
\* counters and the set are never used without the lock held; and at most
\* one task holds the lock.
C19_LockGuardsEveryUse ==
    /\ (\A t \in Tasks : ~InCriticalSection(t)) => MarksAgreeWithCounts
    /\ unguarded = {}
    /\ Cardinality({t \in Tasks : InCriticalSection(t)}) <= 1
    /\ \A t \in Tasks : InCriticalSection(t) <=> failed_smtp_lock = t

\* C19 (amended): as C19, but for one use without the lock: after the
\* coordinator has released it (line 238) it tests the set of credentials to
\* remove once more (line 240), when every task has ended.  The tasks use
\* the counters and the set under the lock only.
C19_LockGuardsTaskUses ==
    /\ (\A t \in Tasks : ~InCriticalSection(t)) => MarksAgreeWithCounts
    /\ unguarded \subseteq {"summary"}
    /\ unguarded # {} => mainPc = "returned" /\ \A t \in Tasks : pc[t] = "done"
    /\ Cardinality({t \in Tasks : InCriticalSection(t)}) <= 1
    /\ \A t \in Tasks : InCriticalSection(t) <=> failed_smtp_lock = t

\* The coordinator has tested a non-empty set of credentials to remove without
\* the lock.
C19_Witness ==
    /\ mainPc = "returned"
    /\ unguarded = {"summary"}
    /\ smtp_failures_to_remove # {}
    /\ failed_smtp_lock = Free

\* C20: send_email waits 10 seconds only between two attempts: a wait
\* follows an attempt in which all three modes were tried and is followed by
\* another attempt, so no wait follows the 10th attempt and a call that
\* returned False has waited exactly 9 times.
C20_WaitsOnlyBetweenAttempts ==
    \A t \in Tasks :
        /\ delivered[t] = "false" => waits[t] = MaxAttempts - 1
        /\ pc[t] = "sleep10" => ~LoopEnds(attempt[t])
        /\ pc[t] = "sleep10" => tried[t] = <<"starttls", "tls", "ssl">>

====
